---- MODULE Spec2Model ----
(***************************************************************************)
(* Appointment scheduling backend of AyurSutra (routes/appointments.js,    *)
(* kept in src/patients.js lines 348-891).  The store of appointments and  *)
(* notifications is the state; every route handler is one action.  logged  *)
(* is what the last request wrote with console.error, inflight the create  *)
(* requests that are between their conflict read and their insert.         *)
(***************************************************************************)
EXTENDS Integers, Sequences, FiniteSets, TLC

VARIABLES appointments, notifications, now, request, response, logged, inflight,
          walletBalance, accepted, feedbacks, assignedPractitioner, practitionerPatients

vars ==
  <<appointments, notifications, now, request, response, logged, inflight,
    walletBalance, accepted, feedbacks, assignedPractitioner, practitionerPatients>>

\* the collections the appointments router does not write: users' wallets
\* (with the wallet requests answered as accepted), feedback, and the
\* patient-practitioner assignment held on both profiles
clinic == <<walletBalance, accepted, feedbacks, assignedPractitioner, practitionerPatients>>

(***************************************************************************)
(* Bounds of the model                                                     *)
(***************************************************************************)
MaxAppts == 2
MaxNotifs == 3
MaxClock == 1
MaxInflight == 2
MaxAccepted == 3

(***************************************************************************)
(* JavaScript undefined / an absent body field / an unset document path    *)
(***************************************************************************)
Undefined == "undefined"

\* a Date path of a document that was never set
UnsetDate == -2

\* req.body[field] !== undefined
Has(b, field) == field \in DOMAIN b

\* the value of an optional body field
Field(b, field) == IF Has(b, field) THEN b[field] ELSE Undefined

(***************************************************************************)
(* Accounts and profiles (created by POST /api/auth/register)              *)
(***************************************************************************)
Users == {"u_pa", "u_pb", "u_da", "u_db", "u_admin"}

UserRole(u) ==
  CASE u \in {"u_pa", "u_pb"} -> "patient"
    [] u \in {"u_da", "u_db"} -> "practitioner"
    [] OTHER -> "admin"

\* Patient collection: _id |-> userId
Patients == [pa |-> "u_pa", pb |-> "u_pb"]

\* Practitioner collection: _id |-> userId
Practitioners == [da |-> "u_da", db |-> "u_db"]

PatientIds == DOMAIN Patients
PractitionerIds == DOMAIN Practitioners

\* Patient.findOne({ userId }): the profile id or Undefined
PatientFindOneByUser(u) ==
  IF \E p \in PatientIds : Patients[p] = u
  THEN CHOOSE p \in PatientIds : Patients[p] = u
  ELSE Undefined

\* Practitioner.findOne({ userId })
PractitionerFindOneByUser(u) ==
  IF \E d \in PractitionerIds : Practitioners[d] = u
  THEN CHOOSE d \in PractitionerIds : Practitioners[d] = u
  ELSE Undefined

\* express-validator isMongoId(): 24 hex digits.  "px" and "dx" stand for
\* well-formed ids of no stored document, "bad-id" for a malformed one.
IsMongoId(id) == id \in PatientIds \cup PractitionerIds \cup {"px", "dx"}

(***************************************************************************)
(* Enumerations of the validators                                          *)
(***************************************************************************)
TherapyTypes ==
  {"abhyanga", "shirodhara", "basti", "nasya", "virechana", "rakta-mokshana",
   "consultation"}

Statuses ==
  {"scheduled", "confirmed", "in-progress", "completed", "cancelled", "no-show"}

ActiveStatuses == {"scheduled", "confirmed"}

\* status of a document created without one (schema default)
DefaultStatus == "scheduled"

(***************************************************************************)
(* Dates.  A Date is a number of hours since 2024-05-31T00:00Z; the server *)
(* clock `now` counts from the same origin.  new Date(string) parses the   *)
(* ISO strings below; anything else gives an invalid date.                 *)
(***************************************************************************)
HoursPerDay == 24
InvalidDate == -1

IsISO8601(s) ==
  s \in {"2024-06-01", "2024-06-01T00:00:00Z", "2024-06-01T12:00:00Z", "2024-06-02"}

NewDate(s) ==
  CASE s = "2024-06-01" -> 24
    [] s = "2024-06-01T00:00:00Z" -> 24
    [] s = "2024-06-01T12:00:00Z" -> 36
    [] s = "2024-06-02" -> 48
    [] OTHER -> InvalidDate

\* selectedDate.setHours(0, 0, 0, 0) and setHours(23, 59, 59, 999), the
\* server running in UTC; at hour granularity the last instant is hour 23
StartOfDay(d) == (d \div HoursPerDay) * HoursPerDay
EndOfDay(d) == StartOfDay(d) + (HoursPerDay - 1)

(***************************************************************************)
(* Wall-clock strings "HH:MM".  split(':') and parseInt give the hour and  *)
(* the minute; a string without digits gives NaN.                          *)
(***************************************************************************)
NaN == -1

ParseHour(t) ==
  CASE t \in {"10:00", "10:15", "10:30", "10:45", "10:0"} -> 10
    [] t \in {"11:00", "11:30"} -> 11
    [] t \in {"17:30"} -> 17
    [] t \in {"18:00"} -> 18
    [] OTHER -> NaN

ParseMinute(t) ==
  CASE t \in {"10:00", "11:00", "18:00", "10:0"} -> 0
    [] t \in {"10:30", "11:30", "17:30"} -> 30
    [] t \in {"10:15"} -> 15
    [] t \in {"10:45"} -> 45
    [] OTHER -> NaN

\* new Date(selectedDate).setHours(h, m, 0, 0) as minutes after midnight of
\* the selected day; NaN when either part is NaN (an Invalid Date)
SetHours(h, m) == IF h = NaN \/ m = NaN THEN NaN ELSE h * 60 + m

\* a < b on Dates: false as soon as one side is an Invalid Date
DateLess(a, b) == a # NaN /\ b # NaN /\ a < b

(***************************************************************************)
(* Reminder list attached by POST /api/appointments                        *)
(***************************************************************************)
\* sent flag of a reminder created without one (schema default)
DefaultSent == FALSE

\* both reminders computed with the 24-hour offset
RemindersBothDayBefore(scheduledDate) ==
  << [type |-> "email", scheduledTime |-> NewDate(scheduledDate) - 24, sent |-> DefaultSent],
     [type |-> "sms", scheduledTime |-> NewDate(scheduledDate) - 24, sent |-> DefaultSent] >>

Reminders(scheduledDate) ==
  << [type |-> "email", scheduledTime |-> NewDate(scheduledDate) - 24, sent |-> DefaultSent],
     [type |-> "sms", scheduledTime |-> NewDate(scheduledDate) - 2, sent |-> DefaultSent] >>

(***************************************************************************)
(* Responses                                                               *)
(***************************************************************************)
Resp(code, message, appts, slots) ==
  [code |-> code, message |-> message, appts |-> appts, slots |-> slots]

Fail(code, message) == Resp(code, message, <<>>, <<>>)

NoRequest == [op |-> "none", user |-> Undefined, id |-> 0, body |-> <<>>]

Req(op, user, id, body) == [op |-> op, user |-> user, id |-> id, body |-> body]

ApptIds == 1..Len(appointments)

\* Appointment.findById(id) finds a document
Exists(id) == id \in ApptIds

IsActive(a) == a.status \in ActiveStatuses

(***************************************************************************)
(* POST /api/appointments                                                  *)
(***************************************************************************)
\* the validator chain without body('duration').isInt({ min: 15 })
ValidCreateNoDuration(b) ==
  /\ IsMongoId(b.patientId)
  /\ IsMongoId(b.practitionerId)
  /\ b.therapyType \in TherapyTypes
  /\ IsISO8601(b.scheduledDate)
  /\ b.startTime # ""
  /\ b.endTime # ""
  /\ b.cost >= 0

ValidCreate(b) ==
  /\ IsMongoId(b.patientId)
  /\ IsMongoId(b.practitionerId)
  /\ b.therapyType \in TherapyTypes
  /\ IsISO8601(b.scheduledDate)
  /\ b.startTime # ""
  /\ b.endTime # ""
  /\ b.duration >= 15
  /\ b.cost >= 0

\* the conflict query with status: 'confirmed' in place of the $in list
ConflictConfirmedOnly(store, practitionerId, scheduledDate, startTime) ==
  \E i \in 1..Len(store) :
    /\ store[i].practitioner = practitionerId
    /\ store[i].scheduledDate = NewDate(scheduledDate)
    /\ store[i].startTime = startTime
    /\ store[i].status = "confirmed"

\* the conflict query without its status filter
ConflictAnyStatus(store, practitionerId, scheduledDate, startTime) ==
  \E i \in 1..Len(store) :
    /\ store[i].practitioner = practitionerId
    /\ store[i].scheduledDate = NewDate(scheduledDate)
    /\ store[i].startTime = startTime

\* Appointment.findOne({practitioner, scheduledDate, startTime, status $in})
Conflict(store, practitionerId, scheduledDate, startTime) ==
  \E i \in 1..Len(store) :
    /\ store[i].practitioner = practitionerId
    /\ store[i].scheduledDate = NewDate(scheduledDate)
    /\ store[i].startTime = startTime
    /\ store[i].status \in ActiveStatuses

NewAppointment(b) ==
  [patient |-> b.patientId,
   practitioner |-> b.practitionerId,
   therapyType |-> b.therapyType,
   scheduledDate |-> NewDate(b.scheduledDate),
   startTime |-> b.startTime,
   endTime |-> b.endTime,
   duration |-> b.duration,
   cost |-> b.cost,
   notes |-> Field(b, "notes"),
   preSessionInstructions |-> Field(b, "preSessionInstructions"),
   postSessionInstructions |-> Field(b, "postSessionInstructions"),
   reminders |-> Reminders(b.scheduledDate),
   status |-> DefaultStatus,
   cancellationReason |-> Undefined,
   cancelledBy |-> Undefined,
   cancelledAt |-> UnsetDate]

ConfirmationNotification(b, id) ==
  [recipient |-> Patients[b.patientId],
   type |-> "appointment_confirmation",
   title |-> "Appointment Confirmed",
   appointmentId |-> id]

\* the answer that ends a create request before the write: validation,
\* patient lookup, practitioner lookup, conflict query, in this order
Proceed == Fail(0, "proceed")

\* the conflict query run before the two lookups
CreateRejectionConflictFirst(store, b) ==
  IF ~ValidCreate(b) THEN Fail(400, "Validation errors")
  ELSE IF Conflict(store, b.practitionerId, b.scheduledDate, b.startTime)
  THEN Fail(400, "Time slot is already booked")
  ELSE IF b.patientId \notin PatientIds THEN Fail(404, "Patient not found")
  ELSE IF b.practitionerId \notin PractitionerIds THEN Fail(404, "Practitioner not found")
  ELSE Proceed

CreateRejection(store, b) ==
  IF ~ValidCreate(b) THEN Fail(400, "Validation errors")
  ELSE IF b.patientId \notin PatientIds THEN Fail(404, "Patient not found")
  ELSE IF b.practitionerId \notin PractitionerIds THEN Fail(404, "Practitioner not found")
  ELSE IF Conflict(store, b.practitionerId, b.scheduledDate, b.startTime)
  THEN Fail(400, "Time slot is already booked")
  ELSE Proceed

\* console.error of the catch around sendAppointmentConfirmation
NothingLogged == ""
DispatchFailed == "Failed to send appointment confirmation:"

DispatchLog(threw) == IF threw THEN DispatchFailed ELSE NothingLogged

\* the dispatch outside the try/catch: its error reaches the handler's catch
ResponseDispatchUncaught(threw, id) ==
  IF threw THEN Fail(500, "Server error creating appointment")
  ELSE Resp(201, "Appointment created successfully", <<id>>, <<>>)

\* the answer once the try/catch around the dispatch is left
ResponseAfterDispatch(threw, id) ==
  Resp(201, "Appointment created successfully", <<id>>, <<>>)

\* appointment.save(), notification.save(), the dispatch and the answer
Persist(user, b) ==
  /\ Len(appointments) < MaxAppts
  /\ Len(notifications) < MaxNotifs
  /\ appointments' = Append(appointments, NewAppointment(b))
  /\ notifications' =
       Append(notifications, ConfirmationNotification(b, Len(appointments) + 1))
  /\ \E threw \in BOOLEAN :
       /\ logged' = DispatchLog(threw)
       /\ response' = ResponseAfterDispatch(threw, Len(appointments) + 1)

Create(user, b) ==
  /\ request' = Req("create", user, 0, b)
  /\ IF CreateRejection(appointments, b) # Proceed
     THEN /\ response' = CreateRejection(appointments, b)
          /\ logged' = NothingLogged
          /\ UNCHANGED <<appointments, notifications>>
     ELSE Persist(user, b)
  /\ UNCHANGED <<now, inflight, clinic>>

(***************************************************************************)
(* POST /api/appointments served concurrently: the handler awaits between  *)
(* its conflict query and appointment.save(), so another request can run   *)
(* in between.  CreateCheck is the handler up to the conflict query,       *)
(* CreateInsert the rest.                                                  *)
(***************************************************************************)
Procs == 1..MaxInflight

Idle == [pc |-> "idle"]

CreateCheck(p, user, b) ==
  /\ inflight[p].pc = "idle"
  /\ IF CreateRejection(appointments, b) # Proceed
     THEN /\ request' = Req("create", user, 0, b)
          /\ response' = CreateRejection(appointments, b)
          /\ logged' = NothingLogged
          /\ UNCHANGED inflight
     ELSE /\ inflight' = [inflight EXCEPT ![p] = [pc |-> "insert", user |-> user, body |-> b]]
          /\ UNCHANGED <<request, response, logged>>
  /\ UNCHANGED <<appointments, notifications, now, clinic>>

\* the conflict query run again immediately before the save
CreateInsertRechecked(p) ==
  /\ inflight[p].pc = "insert"
  /\ request' = Req("create", inflight[p].user, 0, inflight[p].body)
  /\ IF Conflict(appointments, inflight[p].body.practitionerId,
                 inflight[p].body.scheduledDate, inflight[p].body.startTime)
     THEN /\ response' = Fail(400, "Time slot is already booked")
          /\ logged' = NothingLogged
          /\ UNCHANGED <<appointments, notifications>>
     ELSE Persist(inflight[p].user, inflight[p].body)
  /\ inflight' = [inflight EXCEPT ![p] = Idle]
  /\ UNCHANGED <<now, clinic>>

CreateInsert(p) ==
  /\ inflight[p].pc = "insert"
  /\ request' = Req("create", inflight[p].user, 0, inflight[p].body)
  /\ Persist(inflight[p].user, inflight[p].body)
  /\ inflight' = [inflight EXCEPT ![p] = Idle]
  /\ UNCHANGED <<now, clinic>>

(***************************************************************************)
(* Ownership checks of the /:id routes                                     *)
(***************************************************************************)
\* role patient: !patient || appointment.patient !== patient._id
PatientDenied(user, a) ==
  /\ UserRole(user) = "patient"
  /\ \/ PatientFindOneByUser(user) = Undefined
     \/ a.patient # PatientFindOneByUser(user)

\* role practitioner (GET /:id only)
PractitionerDenied(user, a) ==
  /\ UserRole(user) = "practitioner"
  /\ \/ PractitionerFindOneByUser(user) = Undefined
     \/ a.practitioner # PractitionerFindOneByUser(user)

(***************************************************************************)
(* GET /api/appointments/:id                                               *)
(***************************************************************************)
GetById(user, id) ==
  /\ request' = Req("get", user, id, <<>>)
  /\ response' =
       IF ~Exists(id) THEN Fail(404, "Appointment not found")
       ELSE IF PatientDenied(user, appointments[id]) \/ PractitionerDenied(user, appointments[id])
       THEN Fail(403, "Access denied")
       ELSE Resp(200, "", <<id>>, <<>>)
  /\ logged' = NothingLogged
  /\ UNCHANGED <<appointments, notifications, now, inflight, clinic>>

(***************************************************************************)
(* PUT /api/appointments/:id                                               *)
(***************************************************************************)
\* every field of the body copied into the document
ApplyEveryField(a, b) ==
  [f \in DOMAIN a |->
     IF f = "scheduledDate" /\ Has(b, f) THEN NewDate(b[f])
     ELSE IF Has(b, f) THEN b[f]
     ELSE a[f]]

\* allowedFields.forEach: a field of the body that is not undefined replaces
\* the document's; scheduledDate is cast to a Date
ApplyAllowedFields(a, b) ==
  [a EXCEPT
     !.scheduledDate = IF Has(b, "scheduledDate") THEN NewDate(b.scheduledDate) ELSE @,
     !.startTime = IF Has(b, "startTime") THEN b.startTime ELSE @,
     !.endTime = IF Has(b, "endTime") THEN b.endTime ELSE @,
     !.duration = IF Has(b, "duration") THEN b.duration ELSE @,
     !.notes = IF Has(b, "notes") THEN b.notes ELSE @,
     !.preSessionInstructions =
        IF Has(b, "preSessionInstructions") THEN b.preSessionInstructions ELSE @,
     !.postSessionInstructions =
        IF Has(b, "postSessionInstructions") THEN b.postSessionInstructions ELSE @]

\* the update refused when another active appointment holds the target slot
UpdateRechecked(user, id, b) ==
  /\ request' = Req("update", user, id, b)
  /\ IF ~Exists(id)
     THEN /\ response' = Fail(404, "Appointment not found")
          /\ UNCHANGED appointments
     ELSE IF PatientDenied(user, appointments[id])
     THEN /\ response' = Fail(403, "Access denied")
          /\ UNCHANGED appointments
     ELSE IF \E j \in ApptIds \ {id} :
               /\ IsActive(appointments[j])
               /\ appointments[j].practitioner = appointments[id].practitioner
               /\ appointments[j].scheduledDate =
                    ApplyAllowedFields(appointments[id], b).scheduledDate
               /\ appointments[j].startTime = ApplyAllowedFields(appointments[id], b).startTime
     THEN /\ response' = Fail(400, "Time slot is already booked")
          /\ UNCHANGED appointments
     ELSE /\ appointments' =
               [appointments EXCEPT ![id] = ApplyAllowedFields(appointments[id], b)]
          /\ response' = Resp(200, "Appointment updated successfully", <<id>>, <<>>)
  /\ logged' = NothingLogged
  /\ UNCHANGED <<notifications, now, inflight, clinic>>

Update(user, id, b) ==
  /\ request' = Req("update", user, id, b)
  /\ IF ~Exists(id)
     THEN /\ response' = Fail(404, "Appointment not found")
          /\ UNCHANGED appointments
     ELSE IF PatientDenied(user, appointments[id])
     THEN /\ response' = Fail(403, "Access denied")
          /\ UNCHANGED appointments
     ELSE /\ appointments' =
               [appointments EXCEPT ![id] = ApplyAllowedFields(appointments[id], b)]
          /\ response' = Resp(200, "Appointment updated successfully", <<id>>, <<>>)
  /\ logged' = NothingLogged
  /\ UNCHANGED <<notifications, now, inflight, clinic>>

(***************************************************************************)
(* PUT /api/appointments/:id/status                                        *)
(***************************************************************************)
\* body('status').isIn([...]), body('cancellationReason').optional().isLength({min: 1})
ValidStatusBody(b) ==
  /\ Has(b, "status") /\ b.status \in Statuses
  /\ Has(b, "cancellationReason") => b.cancellationReason # ""

\* the three stamps written only when the requested status is cancelled
ApplyStatusStampsCancelledOnly(a, b, user, t) ==
  IF Has(b, "cancellationReason") /\ b.cancellationReason # "" /\ b.status = "cancelled"
  THEN [a EXCEPT !.status = b.status,
                 !.cancellationReason = b.cancellationReason,
                 !.cancelledBy = UserRole(user),
                 !.cancelledAt = t]
  ELSE [a EXCEPT !.status = b.status]

\* a transition table that freezes completed, cancelled and no-show
ApplyStatusGuarded(a, b, user, t) ==
  IF a.status \in {"completed", "cancelled", "no-show"} THEN a
  ELSE IF Has(b, "cancellationReason") /\ b.cancellationReason # ""
  THEN [a EXCEPT !.status = b.status,
                 !.cancellationReason = b.cancellationReason,
                 !.cancelledBy = UserRole(user),
                 !.cancelledAt = t]
  ELSE [a EXCEPT !.status = b.status]

\* appointment.status = status; if (cancellationReason) { three stamps }
ApplyStatus(a, b, user, t) ==
  IF Has(b, "cancellationReason") /\ b.cancellationReason # ""
  THEN [a EXCEPT !.status = b.status,
                 !.cancellationReason = b.cancellationReason,
                 !.cancelledBy = UserRole(user),
                 !.cancelledAt = t]
  ELSE [a EXCEPT !.status = b.status]

StatusTitle(status) ==
  CASE status = "scheduled" -> "Appointment scheduled"
    [] status = "confirmed" -> "Appointment confirmed"
    [] status = "in-progress" -> "Appointment in-progress"
    [] status = "completed" -> "Appointment completed"
    [] status = "cancelled" -> "Appointment cancelled"
    [] OTHER -> "Appointment no-show"

StatusNotification(a, id, status) ==
  [recipient |-> a.patient,
   type |-> "appointment_confirmation",
   title |-> StatusTitle(status),
   appointmentId |-> id]

UpdateStatus(user, id, b) ==
  /\ request' = Req("status", user, id, b)
  /\ IF ~ValidStatusBody(b)
     THEN /\ response' = Fail(400, "Validation errors")
          /\ UNCHANGED <<appointments, notifications>>
     ELSE IF ~Exists(id)
     THEN /\ response' = Fail(404, "Appointment not found")
          /\ UNCHANGED <<appointments, notifications>>
     ELSE /\ Len(notifications) < MaxNotifs
          /\ appointments' =
               [appointments EXCEPT ![id] = ApplyStatus(appointments[id], b, user, now)]
          /\ notifications' =
               Append(notifications, StatusNotification(appointments[id], id, b.status))
          /\ response' = Resp(200, "Appointment status updated successfully", <<id>>, <<>>)
  /\ logged' = NothingLogged
  /\ UNCHANGED <<now, inflight, clinic>>

(***************************************************************************)
(* DELETE /api/appointments/:id                                            *)
(***************************************************************************)
\* the cancellation that also resets the stored reason
ApplyCancelResetsReason(a, user, t) ==
  [a EXCEPT !.status = "cancelled", !.cancelledBy = UserRole(user), !.cancelledAt = t,
            !.cancellationReason = Undefined]

ApplyCancel(a, user, t) ==
  [a EXCEPT !.status = "cancelled", !.cancelledBy = UserRole(user), !.cancelledAt = t]

\* the record removed from the collection instead of being marked
CancelRemoves(user, id) ==
  /\ request' = Req("cancel", user, id, <<>>)
  /\ IF ~Exists(id)
     THEN /\ response' = Fail(404, "Appointment not found")
          /\ UNCHANGED appointments
     ELSE IF PatientDenied(user, appointments[id])
     THEN /\ response' = Fail(403, "Access denied")
          /\ UNCHANGED appointments
     ELSE /\ appointments' =
               SubSeq(appointments, 1, id - 1) \o SubSeq(appointments, id + 1, Len(appointments))
          /\ response' = Resp(200, "Appointment cancelled successfully", <<>>, <<>>)
  /\ logged' = NothingLogged
  /\ UNCHANGED <<notifications, now, inflight, clinic>>

Cancel(user, id) ==
  /\ request' = Req("cancel", user, id, <<>>)
  /\ IF ~Exists(id)
     THEN /\ response' = Fail(404, "Appointment not found")
          /\ UNCHANGED appointments
     ELSE IF PatientDenied(user, appointments[id])
     THEN /\ response' = Fail(403, "Access denied")
          /\ UNCHANGED appointments
     ELSE /\ appointments' =
               [appointments EXCEPT ![id] = ApplyCancel(appointments[id], user, now)]
          /\ response' = Resp(200, "Appointment cancelled successfully", <<>>, <<>>)
  /\ logged' = NothingLogged
  /\ UNCHANGED <<notifications, now, inflight, clinic>>

(***************************************************************************)
(* GET /api/appointments                                                   *)
(***************************************************************************)
DefaultPage == 1
DefaultLimit == 10

\* The Mongo query object: the role-based filter first, then the additional
\* filters, each assignment overwriting the path it names.  Undefined and
\* UnsetDate stand for a path the query does not constrain.
ListQuery(user, q) ==
  [patient |->
     IF Has(q, "patientId") THEN q.patientId
     ELSE IF UserRole(user) = "patient" THEN PatientFindOneByUser(user)
     ELSE Undefined,
   practitioner |->
     IF Has(q, "practitionerId") THEN q.practitionerId
     ELSE IF UserRole(user) = "practitioner" THEN PractitionerFindOneByUser(user)
     ELSE Undefined,
   status |-> Field(q, "status"),
   therapyType |-> Field(q, "therapyType"),
   gte |-> IF Has(q, "startDate") THEN NewDate(q.startDate) ELSE UnsetDate,
   lte |-> IF Has(q, "endDate") THEN NewDate(q.endDate) ELSE UnsetDate]

Matches(a, query) ==
  /\ query.patient # Undefined => a.patient = query.patient
  /\ query.practitioner # Undefined => a.practitioner = query.practitioner
  /\ query.status # Undefined => a.status = query.status
  /\ query.therapyType # Undefined => a.therapyType = query.therapyType
  /\ query.gte # UnsetDate => a.scheduledDate >= query.gte
  /\ query.lte # UnsetDate => a.scheduledDate <= query.lte

\* Appointment.find(query): the ids of the matching documents
Find(store, query) == {i \in 1..Len(store) : Matches(store[i], query)}

\* .sort({ scheduledDate: -1 }), documents of equal date in insertion order
RECURSIVE SortByDateDesc(_, _)
SortByDateDesc(store, ids) ==
  IF ids = {} THEN <<>>
  ELSE LET first == CHOOSE i \in ids : \A j \in ids :
                      \/ store[i].scheduledDate > store[j].scheduledDate
                      \/ store[i].scheduledDate = store[j].scheduledDate /\ i <= j
       IN <<first>> \o SortByDateDesc(store, ids \ {first})

\* .limit(limit * 1).skip((page - 1) * limit)
Paginate(seq, page, limit) ==
  LET skip == (page - 1) * limit
      last == IF skip + limit < Len(seq) THEN skip + limit ELSE Len(seq)
  IN SubSeq(seq, skip + 1, last)

List(user, q) ==
  /\ request' = Req("list", user, 0, q)
  /\ response' =
       IF UserRole(user) = "patient" /\ PatientFindOneByUser(user) = Undefined
       THEN Fail(404, "Patient profile not found")
       ELSE IF UserRole(user) = "practitioner" /\ PractitionerFindOneByUser(user) = Undefined
       THEN Fail(404, "Practitioner profile not found")
       ELSE Resp(200, "",
                 Paginate(SortByDateDesc(appointments, Find(appointments, ListQuery(user, q))),
                          IF Has(q, "page") THEN q.page ELSE DefaultPage,
                          IF Has(q, "limit") THEN q.limit ELSE DefaultLimit),
                 <<>>)
  /\ logged' = NothingLogged
  /\ UNCHANGED <<appointments, notifications, now, inflight, clinic>>

(***************************************************************************)
(* GET /api/appointments/availability                                      *)
(***************************************************************************)
startHour == 10
endHour == 18
slotDuration == 30

\* number.toString().padStart(2, '0')
PadStart2(n) ==
  CASE n = 0 -> "00"
    [] n = 10 -> "10" [] n = 11 -> "11" [] n = 12 -> "12" [] n = 13 -> "13"
    [] n = 14 -> "14" [] n = 15 -> "15" [] n = 16 -> "16" [] n = 17 -> "17"
    [] n = 30 -> "30"
    [] OTHER -> "??"

TimeString(hour, minutes) == PadStart2(hour) \o ":" \o PadStart2(minutes)

\* the (hour, minutes) pairs visited by the two nested loops, in loop order
SlotsPerHour == (60 + slotDuration - 1) \div slotDuration

\* the outer loop written with hour <= endHour
GridThroughEndHour ==
  [k \in 1..((endHour - startHour + 1) * SlotsPerHour) |->
     [hour |-> startHour + (k - 1) \div SlotsPerHour,
      minutes |-> ((k - 1) % SlotsPerHour) * slotDuration]]

Grid ==
  [k \in 1..((endHour - startHour) * SlotsPerHour) |->
     [hour |-> startHour + (k - 1) \div SlotsPerHour,
      minutes |-> ((k - 1) % SlotsPerHour) * slotDuration]]

\* Appointment.find({practitioner, scheduledDate: {$gte, $lte}, status $in})
ExistingAppointments(store, practitionerId, date) ==
  {i \in 1..Len(store) :
     /\ store[i].practitioner = practitionerId
     /\ store[i].scheduledDate >= StartOfDay(NewDate(date))
     /\ store[i].scheduledDate <= EndOfDay(NewDate(date))
     /\ store[i].status \in ActiveStatuses}

\* the callback comparing start times for equality, as the booking guard does
OverlapsExactStart(slotStart, slotEnd, a) ==
  slotStart = SetHours(ParseHour(a.startTime), ParseMinute(a.startTime))

\* slotStart < apptEnd && slotEnd > apptStart
Overlaps(slotStart, slotEnd, a) ==
  LET apptStart == SetHours(ParseHour(a.startTime), ParseMinute(a.startTime))
      apptEnd == SetHours(ParseHour(a.endTime), ParseMinute(a.endTime))
  IN DateLess(slotStart, apptEnd) /\ DateLess(apptStart, slotEnd)

\* existingAppointments.some(...)
HasConflict(store, existing, g) ==
  LET slotStart == SetHours(g.hour, g.minutes)
      slotEnd == slotStart + slotDuration
  IN \E i \in existing : Overlaps(slotStart, slotEnd, store[i])

Slot(g, date) ==
  [time |-> TimeString(g.hour, g.minutes),
   date |-> StartOfDay(NewDate(date)),
   available |-> TRUE]

\* the loop: a slot is pushed only if (!hasConflict)
AvailableSlots(store, practitionerId, date) ==
  LET existing == ExistingAppointments(store, practitionerId, date)
      free(g) == ~HasConflict(store, existing, g)
      kept == SelectSeq(Grid, free)
  IN [k \in 1..Len(kept) |-> Slot(kept[k], date)]

Availability(q) ==
  /\ request' = Req("availability", Undefined, 0, q)
  /\ response' =
       IF ~Has(q, "practitionerId") \/ ~Has(q, "date")
       THEN Fail(400, "Practitioner ID and date are required")
       ELSE IF q.practitionerId \notin PractitionerIds
       THEN Fail(404, "Practitioner not found")
       ELSE IF NewDate(q.date) = InvalidDate
       THEN Fail(500, "Server error fetching availability")
       ELSE Resp(200, "", <<>>, AvailableSlots(appointments, q.practitionerId, q.date))
  /\ logged' =
       IF Has(q, "practitionerId") /\ Has(q, "date") /\ q.practitionerId \in PractitionerIds
          /\ NewDate(q.date) = InvalidDate
       THEN "Get availability error:"
       ELSE NothingLogged
  /\ UNCHANGED <<appointments, notifications, now, inflight, clinic>>

(***************************************************************************)
(* The server clock read by new Date()                                     *)
(***************************************************************************)
Tick ==
  /\ now < MaxClock
  /\ now' = now + 1
  /\ UNCHANGED <<appointments, notifications, request, response, logged, inflight, clinic>>

Init ==
  /\ appointments = <<>>
  /\ notifications = <<>>
  /\ now = 0
  /\ request = NoRequest
  /\ response = Fail(0, "")
  /\ logged = NothingLogged
  /\ inflight = [p \in Procs |-> Idle]
  /\ walletBalance = [u \in Users |-> 0]
  /\ accepted = <<>>
  /\ feedbacks = <<>>
  /\ assignedPractitioner = [p \in PatientIds |-> Undefined]
  /\ practitionerPatients = [d \in PractitionerIds |-> <<>>]

(***************************************************************************)
(* Scheduling: bookings, reschedules, status changes and cancellations of  *)
(* one practitioner's day, requests served one at a time                   *)
(***************************************************************************)
\* a well-formed booking of practitioner "da"
Booking(patientId, date, startTime, endTime) ==
  [patientId |-> patientId, practitionerId |-> "da", therapyType |-> "abhyanga",
   scheduledDate |-> date, startTime |-> startTime, endTime |-> endTime,
   duration |-> 30, cost |-> 0]

SchedUsers == {"u_admin"}

SchedCreateBodies ==
  {Booking(p, "2024-06-01", t, "11:00") : p \in {"pa", "px"}, t \in {"10:00", "10:30"}}
    \cup {[Booking("pa", "2024-06-01", "10:00", "11:00") EXCEPT !.therapyType = "massage"],
          Booking("pa", "2024-06-01T00:00:00Z", "10:00", "11:00"),
          Booking("pa", "2024-06-02", "10:00", "11:00")}

SchedUpdateBodies ==
  {[startTime |-> "10:00"], [startTime |-> "10:30", notes |-> "moved"],
   [scheduledDate |-> "2024-06-02"]}

SchedStatusBodies == {[status |-> "confirmed"], [status |-> "completed"], [status |-> "scheduled"]}

Next ==
  \/ \E u \in SchedUsers, b \in SchedCreateBodies : Create(u, b)
  \/ \E u \in SchedUsers, id \in 1..MaxAppts, b \in SchedUpdateBodies : Update(u, id, b)
  \/ \E u \in SchedUsers, id \in 1..MaxAppts, b \in SchedStatusBodies : UpdateStatus(u, id, b)
  \/ \E u \in SchedUsers, id \in 1..MaxAppts : Cancel(u, id)

Spec == Init /\ [][Next]_vars

(***************************************************************************)
(* Steps of the handlers, recognised from the request they record          *)
(***************************************************************************)
CreateStep == request'.op = "create" /\ Create(request'.user, request'.body)
UpdateStep == request'.op = "update" /\ Update(request'.user, request'.id, request'.body)
StatusStep == request'.op = "status" /\ UpdateStatus(request'.user, request'.id, request'.body)
CancelStep == request'.op = "cancel" /\ Cancel(request'.user, request'.id)

\* minutes after midnight of a well-formed "HH:MM" string
Minutes(t) == ParseHour(t) * 60 + ParseMinute(t)

\* two distinct active appointments of one practitioner on one scheduledDate
ActivePair(i, j) ==
  /\ i # j
  /\ appointments[i].practitioner = appointments[j].practitioner
  /\ appointments[i].scheduledDate = appointments[j].scheduledDate
  /\ IsActive(appointments[i])
  /\ IsActive(appointments[j])

\* C1: no two distinct active appointments of the same practitioner share the
\* same scheduledDate and the same startTime, whatever sequence of create,
\* update, status-update and cancel requests was served.
C1_NoSharedStart ==
  \A i, j \in ApptIds :
    ActivePair(i, j) => appointments[i].startTime # appointments[j].startTime

\* C2: no two distinct active appointments of the same practitioner and date
\* have overlapping half-open intervals [startTime, endTime).
C2_NoOverlap ==
  \A i, j \in ApptIds :
    ActivePair(i, j) =>
      ~ /\ Minutes(appointments[i].startTime) < Minutes(appointments[j].endTime)
        /\ Minutes(appointments[j].startTime) < Minutes(appointments[i].endTime)

\* the slot (practitioner, date, start time) a create request asks for is
\* held by an active appointment
SlotHeld(b) ==
  \E i \in ApptIds :
    /\ IsActive(appointments[i])
    /\ appointments[i].practitioner = b.practitionerId
    /\ appointments[i].scheduledDate = NewDate(b.scheduledDate)
    /\ appointments[i].startTime = b.startTime

\* C3: with requests served one at a time, a create that passes validation and
\* names an existing patient, for a practitioner, date and start time held by
\* an appointment that is still scheduled or confirmed, is answered 400 'Time
\* slot is already booked' and adds no appointment and no notification.
C3_SecondBookingRejected ==
  [][(/\ CreateStep
      /\ ValidCreate(request'.body)
      /\ request'.body.patientId \in PatientIds
      /\ SlotHeld(request'.body))
     => /\ response'.code = 400
        /\ response'.message = "Time slot is already booked"
        /\ appointments' = appointments
        /\ notifications' = notifications]_vars

\* a second booking of a held slot has just been turned down
C3_Witness ==
  /\ request.op = "create"
  /\ response.message = "Time slot is already booked"
  /\ SlotHeld(request.body)
  /\ \E i \in ApptIds : appointments[i].status = "confirmed" /\ appointments[i].startTime = request.body.startTime

(***************************************************************************)
(* Availability: the slot list computed over stores that bookings and      *)
(* cancellations of two practitioners produce                              *)
(***************************************************************************)
AvailCreateBodies ==
  {[Booking("pa", d, iv[1], iv[2]) EXCEPT !.practitionerId = p] :
     p \in {"da", "db"},
     d \in {"2024-06-01T12:00:00Z", "2024-06-02"},
     iv \in {<<"10:00", "10:30">>, <<"10:15", "10:45">>, <<"17:30", "18:00">>}}

AvailStatusBodies == {[status |-> "confirmed"], [status |-> "completed"]}

AvailQueries ==
  {[practitionerId |-> p, date |-> d] : p \in {"da", "db", "dx"}, d \in {"2024-06-01", "2024-06-02"}}
    \cup {[practitionerId |-> "da"], [practitionerId |-> "da", date |-> "tomorrow"]}

NextAvailability ==
  \/ \E b \in AvailCreateBodies : Create("u_pa", b)
  \/ \E id \in 1..MaxAppts, b \in AvailStatusBodies : UpdateStatus("u_da", id, b)
  \/ \E id \in 1..MaxAppts : Cancel("u_pa", id)
  \/ \E q \in AvailQueries : Availability(q)

SpecAvailability == Init /\ [][NextAvailability]_vars

\* the 16 start times of the 10:00-18:00 half-hour grid, in order
GridTimes ==
  << "10:00", "10:30", "11:00", "11:30", "12:00", "12:30", "13:00", "13:30",
     "14:00", "14:30", "15:00", "15:30", "16:00", "16:30", "17:00", "17:30" >>

\* minutes after midnight at which the k-th grid slot starts
GridStart(k) == 600 + (k - 1) * 30

\* the last request was an availability query that was answered with slots
AvailabilityAnswered == request.op = "availability" /\ response.code = 200

\* the k-th grid slot is in the answer
Reported(k) == \E n \in 1..Len(response.slots) : response.slots[n].time = GridTimes[k]

\* an active appointment of the queried practitioner on the queried day
\* overlaps the k-th grid slot
Blocked(k) ==
  \E i \in ApptIds :
    /\ appointments[i].practitioner = request.body.practitionerId
    /\ appointments[i].scheduledDate \div 24 = NewDate(request.body.date) \div 24
    /\ appointments[i].status \in {"scheduled", "confirmed"}
    /\ GridStart(k) < Minutes(appointments[i].endTime)
    /\ GridStart(k) + 30 > Minutes(appointments[i].startTime)

\* C4: the availability computation reports a grid slot [s, s+30min) as
\* available if and only if no scheduled or confirmed appointment of that
\* practitioner on that date satisfies s < apptEnd and s+30min > apptStart.
C4_AvailableIffNoOverlap ==
  AvailabilityAnswered => \A k \in 1..16 : Reported(k) <=> ~Blocked(k)

\* after a booking 10:00-10:30 the answer leaves out 10:00 and starts at 10:30,
\* 11:00
C4_Witness ==
  /\ AvailabilityAnswered
  /\ \E i \in ApptIds :
       /\ appointments[i].practitioner = request.body.practitionerId
       /\ appointments[i].scheduledDate \div 24 = NewDate(request.body.date) \div 24
       /\ IsActive(appointments[i])
       /\ appointments[i].startTime = "10:00" /\ appointments[i].endTime = "10:30"
  /\ Len(response.slots) = 15
  /\ response.slots[1].time = "10:30"
  /\ response.slots[2].time = "11:00"

\* C5 as stated: every availability result holds each of the 16 grid slots
\* exactly once, in increasing order, overlapping slots being present and
\* tagged unavailable rather than missing.
C5_AllSixteenSlots ==
  AvailabilityAnswered =>
    /\ Len(response.slots) = 16
    /\ \A k \in 1..16 : response.slots[k].time = GridTimes[k]
    /\ \A k \in 1..16 : response.slots[k].available \in BOOLEAN

\* position of a time string in the grid, 0 if it is no grid start
GridIndex(t) ==
  IF \E k \in 1..16 : GridTimes[k] = t THEN CHOOSE k \in 1..16 : GridTimes[k] = t ELSE 0

\* C5 (amended): every availability result is a sequence of grid slots in
\* strictly increasing start-time order, each at most once and each with
\* available = true; a slot that overlaps an active appointment is missing
\* from the result, and all 16 slots are present when none overlaps.
C5_AvailableSlotsInOrder ==
  AvailabilityAnswered =>
    /\ \A n \in 1..Len(response.slots) :
         /\ GridIndex(response.slots[n].time) # 0
         /\ response.slots[n].available = TRUE
    /\ \A n \in 1..(Len(response.slots) - 1) :
         GridIndex(response.slots[n].time) < GridIndex(response.slots[n + 1].time)
    /\ \A k \in 1..16 : Blocked(k) => ~Reported(k)
    /\ (\A k \in 1..16 : ~Blocked(k)) =>
         /\ Len(response.slots) = 16
         /\ \A k \in 1..16 : response.slots[k].time = GridTimes[k]

\* an answer that lacks the slots of two active appointments
C5_Witness ==
  /\ AvailabilityAnswered
  /\ Len(response.slots) = 13
  /\ Blocked(1) /\ Blocked(2) /\ Blocked(16)
  /\ response.slots[1].time = "11:00"

(***************************************************************************)
(* Lifecycle: status changes and cancellations by several callers, with    *)
(* the server clock advancing between requests                             *)
(***************************************************************************)
LifeUsers == {"u_pa", "u_pb", "u_admin"}

LifeCreateBodies ==
  {Booking("pa", "2024-06-01", "10:00", "10:30"), Booking("pb", "2024-06-01", "10:30", "11:00")}

LifeUpdateBodies == {[notes |-> "bring reports"]}

LifeStatusBodies ==
  {[status |-> st] : st \in {"scheduled", "completed", "cancelled"}}
    \cup {[status |-> st, cancellationReason |-> "patient requested"] :
            st \in {"completed", "cancelled"}}
    \cup {[status |-> "done"], [status |-> "cancelled", cancellationReason |-> ""]}

NextLifecycle ==
  \/ \E u \in LifeUsers, b \in LifeCreateBodies : Create(u, b)
  \/ \E u \in LifeUsers \cup {"u_da", "u_db"}, id \in 1..MaxAppts : GetById(u, id)
  \/ \E u \in LifeUsers, id \in 1..MaxAppts, b \in LifeUpdateBodies : Update(u, id, b)
  \/ \E u \in LifeUsers, id \in 1..MaxAppts, b \in LifeStatusBodies : UpdateStatus(u, id, b)
  \/ \E u \in LifeUsers, id \in 1..MaxAppts : Cancel(u, id)
  \/ Tick

SpecLifecycle == Init /\ [][NextLifecycle]_vars

GetStep == request'.op = "get" /\ GetById(request'.user, request'.id)

\* C6: an appointment has cancelledAt, cancelledBy and cancellationReason all
\* set if and only if its status is cancelled.
C6_CancellationFieldsIffCancelled ==
  \A i \in ApptIds :
    (/\ appointments[i].cancelledAt # UnsetDate
     /\ appointments[i].cancelledBy # Undefined
     /\ appointments[i].cancellationReason # Undefined)
      <=> appointments[i].status = "cancelled"

\* C7: once an appointment's status is completed, cancelled or no-show, no
\* later operation changes its status.
C7_TerminalStatuses ==
  [][\A i \in ApptIds :
       appointments[i].status \in {"completed", "cancelled", "no-show"}
         => appointments'[i].status = appointments[i].status]_vars

\* C8: cancel on an appointment whose status is already cancelled succeeds and
\* leaves every field of the appointment, cancelledBy and cancelledAt
\* included, as it was.
C8_CancelIdempotent ==
  [][(/\ CancelStep
      /\ Exists(request'.id)
      /\ appointments[request'.id].status = "cancelled"
      /\ ~PatientDenied(request'.user, appointments[request'.id]))
     => /\ response'.code = 200
        /\ appointments'[request'.id] = appointments[request'.id]]_vars

\* the caller has role patient and the appointment is not of the caller's
\* patient profile
ForeignPatient(user, id) ==
  /\ UserRole(user) = "patient"
  /\ Exists(id)
  /\ appointments[id].patient # PatientFindOneByUser(user)

\* C9: a request of a patient to read, modify, change the status of or cancel
\* an appointment of another patient is rejected with access denied and
\* leaves the appointment unchanged.
C9_PatientOwnAppointmentsOnly ==
  [][((GetStep \/ UpdateStep \/ StatusStep \/ CancelStep)
        /\ ForeignPatient(request'.user, request'.id))
     => /\ response'.code = 403
        /\ appointments'[request'.id] = appointments[request'.id]]_vars

(***************************************************************************)
(* Listing: GET /api/appointments over the bookings of two patients with   *)
(* two practitioners                                                       *)
(***************************************************************************)
ListCreateBodies ==
  {[Booking(p, dt[1], dt[2], "11:00") EXCEPT !.practitionerId = d] :
     p \in {"pa", "pb"}, d \in {"da", "db"},
     dt \in {<<"2024-06-01", "10:00">>, <<"2024-06-02", "10:30">>}}

ListQueries ==
  {[x \in {} |-> Undefined]}
    \cup {[patientId |-> p] : p \in {"pa", "pb"}}
    \cup {[practitionerId |-> d] : d \in {"da", "db"}}
    \cup {[status |-> "scheduled", startDate |-> "2024-06-02"],
          [status |-> "cancelled", therapyType |-> "abhyanga"],
          [endDate |-> "2024-06-01", patientId |-> "pa", practitionerId |-> "da"],
          [page |-> 2, limit |-> 1]}

NextListing ==
  \/ \E u \in {"u_pa", "u_da"}, b \in ListCreateBodies : Create(u, b)
  \/ \E id \in 1..MaxAppts : Cancel("u_admin", id)
  \/ \E u \in {"u_pa", "u_pb", "u_da", "u_db", "u_admin"}, q \in ListQueries : List(u, q)

SpecListing == Init /\ [][NextListing]_vars

\* C10: GET /appointments issued by a patient returns only appointments of the
\* requester's own patient profile, and issued by a practitioner only those of
\* the requester's own practitioner profile, whatever the filters.
C10_ListRoleScoped ==
  (request.op = "list" /\ response.code = 200) =>
    \A n \in 1..Len(response.appts) :
      /\ UserRole(request.user) = "patient" =>
           appointments[response.appts[n]].patient = PatientFindOneByUser(request.user)
      /\ UserRole(request.user) = "practitioner" =>
           appointments[response.appts[n]].practitioner = PractitionerFindOneByUser(request.user)

(***************************************************************************)
(* Booking: create requests of every kind (malformed, naming unknown       *)
(* profiles, colliding, acceptable) against a store that status changes    *)
(* and cancellations keep moving                                           *)
(***************************************************************************)
BookInvalidBodies ==
  {[Booking("pa", "2024-06-01", "10:00", "11:00") EXCEPT !.patientId = "bad-id"],
   [Booking("pa", "2024-06-01", "10:00", "11:00") EXCEPT !.practitionerId = "bad-id"],
   [Booking("px", "2024-06-01", "10:00", "11:00") EXCEPT !.therapyType = "massage"],
   Booking("pa", "tomorrow", "10:00", "11:00"),
   Booking("pa", "2024-06-01", "", "11:00"),
   Booking("pa", "2024-06-01", "10:00", ""),
   [Booking("pa", "2024-06-01", "10:00", "11:00") EXCEPT !.duration = 14],
   [Booking("pa", "2024-06-01", "10:00", "11:00") EXCEPT !.cost = -1]}

BookValidBodies ==
  {[Booking(p, "2024-06-01", t, "11:00") EXCEPT !.practitionerId = d] :
     p \in {"pa", "px"}, d \in {"da", "dx"}, t \in {"10:00", "10:30"}}
    \cup {Booking("pb", "2024-06-01T00:00:00Z", "10:00", "10:30"),
          Booking("pb", "2024-06-02", "10:00", "10:30")}

BookStatusBodies ==
  {[status |-> st] : st \in {"confirmed", "in-progress", "completed", "no-show"}}

NextBooking ==
  \/ \E b \in BookValidBodies \cup BookInvalidBodies : Create("u_pa", b)
  \/ \E id \in 1..MaxAppts, b \in BookStatusBodies : UpdateStatus("u_da", id, b)
  \/ \E id \in 1..MaxAppts : Cancel("u_pa", id)

SpecBooking == Init /\ [][NextBooking]_vars

\* the appointment a 201 answer returns
Created == appointments[response.appts[1]]

\* C11: a failure of the confirmation dispatch during create never fails the
\* booking: the request is still answered 201 with the appointment, and the
\* appointment written before the dispatch is persisted with status scheduled.
C11_DispatchFailureSwallowed ==
  (request.op = "create" /\ logged = "Failed to send appointment confirmation:") =>
    /\ response.code = 201
    /\ Len(response.appts) = 1
    /\ response.appts[1] \in ApptIds
    /\ Created.status = "scheduled"
    /\ Created.startTime = request.body.startTime
    /\ Created.patient = request.body.patientId

\* a booking answered 201 although its dispatch threw
C11_Witness ==
  /\ request.op = "create"
  /\ logged = "Failed to send appointment confirmation:"
  /\ response.code = 201
  /\ Created.status = "scheduled"

\* a create body that some validator of the route rejects
FailsValidation(b) ==
  \/ b.patientId = "bad-id"
  \/ b.practitionerId = "bad-id"
  \/ b.therapyType \notin
       {"abhyanga", "shirodhara", "basti", "nasya", "virechana", "rakta-mokshana",
        "consultation"}
  \/ ~IsISO8601(b.scheduledDate)
  \/ b.startTime = ""
  \/ b.endTime = ""
  \/ b.duration < 15
  \/ b.cost < 0

\* C12: every create request that fails input validation is answered with the
\* validation error and leaves the stored appointments and notifications
\* unchanged.
C12_ValidationBeforeMutation ==
  [][(CreateStep /\ FailsValidation(request'.body))
     => /\ response'.code = 400
        /\ response'.message = "Validation errors"
        /\ appointments' = appointments
        /\ notifications' = notifications]_vars

\* a request with duration 14 was turned down while the slot it asks for is free
C12_Witness ==
  /\ request.op = "create"
  /\ request.body.duration = 14
  /\ response.message = "Validation errors"
  /\ ~SlotHeld(request.body)

\* C13: a valid create naming a non-existent patient is answered 'Patient not
\* found', one naming an existing patient and a non-existent practitioner
\* 'Practitioner not found', even when the requested slot is held by an active
\* appointment; the slot-conflict answer is given only when both exist.
C13_ExistenceBeforeConflict ==
  [][(CreateStep /\ ~FailsValidation(request'.body))
     => /\ request'.body.patientId \notin {"pa", "pb"} =>
             response'.code = 404 /\ response'.message = "Patient not found"
        /\ (request'.body.patientId \in {"pa", "pb"}
              /\ request'.body.practitionerId \notin {"da", "db"}) =>
             response'.code = 404 /\ response'.message = "Practitioner not found"
        /\ response'.message = "Time slot is already booked" =>
             /\ request'.body.patientId \in {"pa", "pb"}
             /\ request'.body.practitionerId \in {"da", "db"}
        /\ response'.code = 404 =>
             appointments' = appointments /\ notifications' = notifications]_vars

\* an unknown patient asked for a held slot and was answered not-found
C13_Witness ==
  /\ request.op = "create"
  /\ request.body.patientId = "px"
  /\ SlotHeld(request.body)
  /\ response.message = "Patient not found"

\* C14: every successful create persists exactly one new appointment with
\* status scheduled and the reminder list <<email at scheduledDate - 24h, sms
\* at scheduledDate - 2h>>, both unsent; bookings of the same scheduledDate
\* carry identical reminder lists.
C14_CreatePersistsOneWithReminders ==
  [][(CreateStep /\ response'.code = 201)
     => /\ Len(appointments') = Len(appointments) + 1
        /\ SubSeq(appointments', 1, Len(appointments)) = appointments
        /\ response'.appts = <<Len(appointments')>>
        /\ appointments'[Len(appointments')].status = "scheduled"
        /\ appointments'[Len(appointments')].reminders =
             << [type |-> "email",
                 scheduledTime |-> appointments'[Len(appointments')].scheduledDate - 24,
                 sent |-> FALSE],
                [type |-> "sms",
                 scheduledTime |-> appointments'[Len(appointments')].scheduledDate - 2,
                 sent |-> FALSE] >>
        /\ \A i \in 1..Len(appointments') :
             appointments'[i].scheduledDate = appointments'[Len(appointments')].scheduledDate
               => appointments'[i].reminders = appointments'[Len(appointments')].reminders]_vars

\* two bookings of one scheduledDate, written as two different strings
C14_Witness ==
  /\ request.op = "create"
  /\ response.code = 201
  /\ Len(appointments) = 2
  /\ request.body.scheduledDate = "2024-06-01T00:00:00Z"
  /\ appointments[1].scheduledDate = appointments[2].scheduledDate
  /\ appointments[1].reminders = appointments[2].reminders
  /\ appointments[2].reminders[2].scheduledTime = 22

\* the fields that identify a stored appointment
Identity(a) == <<a.patient, a.practitioner, a.therapyType, a.reminders>>

\* C15: appointments are never removed: over every step of every operation
\* the stored ids only grow and each stored record stays the same record, and
\* a DELETE that succeeds keeps the record, changing only its status (to
\* cancelled) and its cancellation stamps.
C15_NeverRemoved ==
  [][/\ Len(appointments') >= Len(appointments)
     /\ \A i \in 1..Len(appointments) : Identity(appointments'[i]) = Identity(appointments[i])
     /\ (CancelStep /\ response'.code = 200) =>
          /\ Len(appointments') = Len(appointments)
          /\ appointments'[request'.id].status = "cancelled"
          /\ appointments' =
               [appointments EXCEPT
                  ![request'.id] =
                     [@ EXCEPT !.status = "cancelled",
                               !.cancelledBy = appointments'[request'.id].cancelledBy,
                               !.cancelledAt = appointments'[request'.id].cancelledAt]]]_vars

\* the first of two stored appointments was deleted and is still stored
C15_Witness ==
  /\ request.op = "cancel"
  /\ request.id = 1
  /\ response.code = 200
  /\ Len(appointments) = 2
  /\ appointments[1].status = "cancelled"
  /\ appointments[2].status # "cancelled"

(***************************************************************************)
(* Routing of GET requests: Express tries the router's GET routes in the   *)
(* order of their registration and runs the first whose pattern matches    *)
(***************************************************************************)
\* router.get('/', auth, ...), router.get('/:id', auth, ...),
\* router.get('/availability', ...), in source order
GetRoutes ==
  << [path |-> "/", handler |-> "list", auth |-> TRUE],
     [path |-> "/:id", handler |-> "getById", auth |-> TRUE],
     [path |-> "/availability", handler |-> "availability", auth |-> FALSE] >>

\* '/:id' matches every path of one non-empty segment
PathMatches(pattern, path) == IF pattern = "/:id" THEN path # "/" ELSE pattern = path

Route(path) ==
  GetRoutes[CHOOSE i \in 1..Len(GetRoutes) :
              /\ PathMatches(GetRoutes[i].path, path)
              /\ \A j \in 1..(i - 1) : ~PathMatches(GetRoutes[j].path, path)]

\* a request that carries no token
Anonymous == Undefined

\* the auth middleware's answer to a request without a token
Unauthorized == Fail(401, "No token, authorization denied")

\* req.params.id does not cast to an ObjectId
CastError == -1

\* an ObjectId that names no stored appointment
NoSuchId == 0

\* req.params.id as findById receives it: "/1", "/2", ... name stored ids;
\* a 12-character segment such as "availability" casts to an ObjectId naming
\* no document or fails to cast, depending on the driver version
ParamIds(path) ==
  CASE path = "/1" -> {1}
    [] path = "/2" -> {2}
    [] path = "/3" -> {3}
    [] OTHER -> {NoSuchId, CastError}

HttpGet(user, path, q) ==
  IF Route(path).auth /\ user = Anonymous
  THEN /\ request' = Req(Route(path).handler, user, CastError, q)
       /\ response' = Unauthorized
       /\ logged' = NothingLogged
       /\ UNCHANGED <<appointments, notifications, now, inflight, clinic>>
  ELSE IF Route(path).handler = "availability" THEN Availability(q)
  ELSE IF Route(path).handler = "list" THEN List(user, q)
  ELSE \E id \in ParamIds(path) :
         IF id = CastError
         THEN /\ request' = Req("getById", user, CastError, q)
              /\ response' = Fail(500, "Server error fetching appointment")
              /\ logged' = "Get appointment error:"
              /\ UNCHANGED <<appointments, notifications, now, inflight, clinic>>
         ELSE GetById(user, id)

RouteUsers == {Anonymous, "u_pa", "u_da"}

RoutePaths == {"/", "/1", "/2", "/availability"}

RouteQueries ==
  {[practitionerId |-> "da", date |-> "2024-06-01"],
   [practitionerId |-> "dx", date |-> "2024-06-01"],
   [practitionerId |-> "da", date |-> "2024-06-02"]}

RouteCreateBodies ==
  {Booking("pa", "2024-06-01", "10:00", "10:30"), Booking("pb", "2024-06-01", "10:30", "11:00")}

NextRouting ==
  \/ \E b \in RouteCreateBodies : Create("u_pa", b)
  \/ \E u \in RouteUsers, path \in RoutePaths, q \in RouteQueries : HttpGet(u, path, q)

SpecRouting == Init /\ [][NextRouting]_vars

\* a GET of /availability carrying the query recorded by the step
GetAvailabilityStep == \E u \in RouteUsers : HttpGet(u, "/availability", request'.body)

\* C16: a GET of /appointments/availability with practitionerId and date, with
\* or without a token, is served by the availability handler: it answers the
\* slot list, or not-found when the practitioner does not exist.
C16_AvailabilityDispatched ==
  [][GetAvailabilityStep
     => /\ Availability(request'.body)
        /\ response'.code = IF request'.body.practitionerId \in PractitionerIds THEN 200 ELSE 404]_vars

(***************************************************************************)
(* Race: create requests in flight together, each suspended at the await   *)
(* of its conflict query before it saves                                   *)
(***************************************************************************)
RaceCreateBodies ==
  {Booking("pa", "2024-06-01", "10:00", "10:30"),
   Booking("pb", "2024-06-01", "10:00", "10:30"),
   Booking("pb", "2024-06-01", "10:30", "11:00"),
   Booking("px", "2024-06-01", "10:00", "10:30")}

RaceUsers == {"u_pa", "u_pb"}

NextRace ==
  \/ \E p \in Procs, u \in RaceUsers, b \in RaceCreateBodies : CreateCheck(p, u, b)
  \/ \E p \in Procs : CreateInsert(p)

SpecRace == Init /\ [][NextRace]_vars

\* process p ends the second half of its create
InsertStep(p) == inflight[p].pc = "insert" /\ CreateInsert(p)

\* C17: a create whose conflict read passed is persisted whatever was saved
\* between its read and its insert: its insert step stores an active
\* appointment on the requested slot and answers 201 even when another
\* request has meanwhile stored an active appointment on that same slot.
C17_InsertAfterCheckAlwaysPersists ==
  [][\A p \in Procs :
       InsertStep(p) =>
         /\ response'.code = 201
         /\ Len(appointments') = Len(appointments) + 1
         /\ IsActive(appointments'[Len(appointments')])
         /\ appointments'[Len(appointments')].practitioner = inflight[p].body.practitionerId
         /\ appointments'[Len(appointments')].scheduledDate =
              NewDate(inflight[p].body.scheduledDate)
         /\ appointments'[Len(appointments')].startTime = inflight[p].body.startTime]_vars

\* two interleaved creates were both answered 201 and left two active
\* appointments of one practitioner on one date and start time
C17_Witness ==
  /\ request.op = "create"
  /\ response.code = 201
  /\ Len(appointments) = 2
  /\ ActivePair(1, 2)
  /\ appointments[1].startTime = appointments[2].startTime
  /\ appointments[1].patient # appointments[2].patient

\* stored appointment i matches the conflict query of create body b
MatchesConflictQuery(i, b) ==
  /\ appointments[i].practitioner = b.practitionerId
  /\ appointments[i].scheduledDate = NewDate(b.scheduledDate)
  /\ appointments[i].startTime = b.startTime
  /\ appointments[i].status \in {"scheduled", "confirmed"}

\* C18: a valid create naming an existing patient and practitioner is rejected
\* as a slot conflict if and only if some stored appointment has the same
\* practitioner, the same scheduledDate, an equal startTime and status
\* scheduled or confirmed; otherwise it is accepted, overlapping intervals and
\* appointments in any other status notwithstanding.
C18_ConflictIffExactActiveStart ==
  [][(/\ CreateStep
      /\ ~FailsValidation(request'.body)
      /\ request'.body.patientId \in {"pa", "pb"}
      /\ request'.body.practitionerId \in {"da", "db"})
     => /\ (response'.message = "Time slot is already booked")
             <=> (\E i \in ApptIds : MatchesConflictQuery(i, request'.body))
        /\ (response'.code = 201)
             <=> ~(\E i \in ApptIds : MatchesConflictQuery(i, request'.body))]_vars

\* a booking 10:30-11:00 was accepted beside the active booking 10:00-11:00 of
\* the same practitioner and date
C18_Witness ==
  /\ request.op = "create"
  /\ response.code = 201
  /\ Len(appointments) = 2
  /\ ActivePair(1, 2)
  /\ appointments[1].startTime = "10:00"
  /\ appointments[1].endTime = "11:00"
  /\ appointments[2].startTime = "10:30"

(***************************************************************************)
(* Rescheduling: bookings of distinct slots that updates then move, with   *)
(* status changes and cancellations, requests served one at a time         *)
(***************************************************************************)
MoveUsers == {"u_pa", "u_admin"}

MoveCreateBodies ==
  {Booking("pa", "2024-06-01", "10:00", "10:30"),
   Booking("pb", "2024-06-02", "10:30", "11:00")}

MoveUpdateBodies ==
  {[startTime |-> "10:00"], [scheduledDate |-> "2024-06-01T00:00:00Z", startTime |-> "10:30"]}

MoveStatusBodies == {[status |-> "completed"]}

NextReschedule ==
  \/ \E b \in MoveCreateBodies : Create("u_admin", b)
  \/ \E u \in MoveUsers, id \in 1..MaxAppts, b \in MoveUpdateBodies : Update(u, id, b)
  \/ \E id \in 1..MaxAppts, b \in MoveStatusBodies : UpdateStatus("u_admin", id, b)
  \/ \E u \in MoveUsers, id \in 1..MaxAppts : Cancel(u, id)

SpecReschedule == Init /\ [][NextReschedule]_vars

\* the slot appointment id would occupy after update body b is applied is the
\* slot of another active appointment
TargetHeld(id, b) ==
  \E j \in ApptIds \ {id} :
    /\ appointments[j].status \in {"scheduled", "confirmed"}
    /\ appointments[j].practitioner = appointments[id].practitioner
    /\ appointments[j].scheduledDate =
         (IF Has(b, "scheduledDate") THEN NewDate(b.scheduledDate)
          ELSE appointments[id].scheduledDate)
    /\ appointments[j].startTime =
         (IF Has(b, "startTime") THEN b.startTime ELSE appointments[id].startTime)

\* C19: PUT /:id never re-runs the conflict check: an update of an existing
\* active appointment by a caller allowed to update it, whose new date and
\* start time are those of another active appointment of the same
\* practitioner, is answered 200 and written, leaving two active
\* appointments on one slot.
C19_UpdateSkipsConflictCheck ==
  [][(/\ UpdateStep
      /\ request'.id \in ApptIds
      /\ appointments[request'.id].status \in {"scheduled", "confirmed"}
      /\ ~(request'.user = "u_pa" /\ appointments[request'.id].patient # "pa")
      /\ TargetHeld(request'.id, request'.body))
     => /\ response'.code = 200
        /\ \E j \in ApptIds \ {request'.id} :
             /\ appointments'[j].status \in {"scheduled", "confirmed"}
             /\ appointments'[request'.id].status \in {"scheduled", "confirmed"}
             /\ appointments'[j].practitioner = appointments'[request'.id].practitioner
             /\ appointments'[j].scheduledDate = appointments'[request'.id].scheduledDate
             /\ appointments'[j].startTime = appointments'[request'.id].startTime]_vars

\* two bookings made on distinct slots share a slot after an update, with no
\* request other than the two creates and updates having been served
C19_Witness ==
  /\ request.op = "update"
  /\ response.code = 200
  /\ Len(appointments) = 2
  /\ Len(notifications) = 2
  /\ ActivePair(1, 2)
  /\ appointments[1].startTime = appointments[2].startTime

(***************************************************************************)
(* Status changes: every status requested of appointments in every status  *)
(***************************************************************************)
StatusCreateBodies == {Booking("pa", "2024-06-01", "10:00", "10:30")}

StatusUsers == {"u_pb", "u_da"}

StatusBodies ==
  {[status |-> st] : st \in Statuses}
    \cup {[status |-> "cancelled", cancellationReason |-> "patient requested"],
          [status |-> "done"]}

NextStatus ==
  \/ \E b \in StatusCreateBodies : Create("u_pa", b)
  \/ \E u \in StatusUsers, id \in 1..MaxAppts, b \in StatusBodies : UpdateStatus(u, id, b)
  \/ \E id \in 1..MaxAppts : Cancel("u_pa", id)

SpecStatus == Init /\ [][NextStatus]_vars

\* C20: updateStatus is unguarded: a status request naming one of the six
\* status values for an existing appointment is answered 200 and leaves the
\* appointment in the requested status, whatever its current status.
C20_AnyStatusToAnyStatus ==
  [][(/\ StatusStep
      /\ request'.id \in ApptIds
      /\ request'.body.status \in
           {"scheduled", "confirmed", "in-progress", "completed", "cancelled", "no-show"})
     => /\ response'.code = 200
        /\ appointments'[request'.id].status = request'.body.status]_vars

\* an appointment that was completed is scheduled again
C20_Witness ==
  /\ request.op = "status"
  /\ response.code = 200
  /\ Len(notifications) = 3
  /\ notifications[2].title = "Appointment completed"
  /\ notifications[3].title = "Appointment scheduled"
  /\ notifications[2].appointmentId = 1
  /\ notifications[3].appointmentId = 1
  /\ appointments[1].status = "scheduled"

(***************************************************************************)
(* Cancellation stamps: status requests with and without a reason and      *)
(* DELETE requests by callers of every role, the clock advancing           *)
(***************************************************************************)
StampCreateBodies == {Booking("pa", "2024-06-01", "10:00", "10:30")}

StampStatusUsers == {"u_pb", "u_da"}

StampCancelUsers == {"u_pa", "u_pb", "u_admin"}

StampStatusBodies ==
  {[status |-> st, cancellationReason |-> "patient requested"] :
     st \in {"cancelled", "completed"}}
    \cup {[status |-> "cancelled"], [status |-> "confirmed", cancellationReason |-> "late"]}

NextStamp ==
  \/ \E b \in StampCreateBodies : Create("u_pa", b)
  \/ \E u \in StampStatusUsers, id \in 1..MaxAppts, b \in StampStatusBodies :
       UpdateStatus(u, id, b)
  \/ \E u \in StampCancelUsers, id \in 1..MaxAppts : Cancel(u, id)
  \/ Tick

SpecStamp == Init /\ [][NextStamp]_vars

\* req.user.role of the callers
RoleOf(u) ==
  CASE u = "u_pa" -> "patient" [] u = "u_pb" -> "patient"
    [] u = "u_da" -> "practitioner" [] u = "u_db" -> "practitioner"
    [] OTHER -> "admin"

\* C21: a status request with a non-empty cancellationReason for an existing
\* appointment sets cancellationReason to that reason, cancelledBy to the
\* caller's role and cancelledAt to the current time, and the status to the
\* requested one, whether that status is cancelled or not.
C21_ReasonStampsWhateverStatus ==
  [][(/\ StatusStep
      /\ request'.id \in ApptIds
      /\ request'.body.status \in
           {"scheduled", "confirmed", "in-progress", "completed", "cancelled", "no-show"}
      /\ "cancellationReason" \in DOMAIN request'.body
      /\ request'.body.cancellationReason # "")
     => /\ response'.code = 200
        /\ appointments'[request'.id].status = request'.body.status
        /\ appointments'[request'.id].cancellationReason = request'.body.cancellationReason
        /\ appointments'[request'.id].cancelledBy = RoleOf(request'.user)
        /\ appointments'[request'.id].cancelledAt = now]_vars

\* updateStatus(appt, 'cancelled', 'patient requested') by a practitioner at
\* clock 1
C21_Witness ==
  /\ request.op = "status"
  /\ request.body = [status |-> "cancelled", cancellationReason |-> "patient requested"]
  /\ request.user = "u_da"
  /\ response.code = 200
  /\ appointments[request.id].status = "cancelled"
  /\ appointments[request.id].cancellationReason = "patient requested"
  /\ appointments[request.id].cancelledBy = "practitioner"
  /\ appointments[request.id].cancelledAt = 1

\* the caller is a patient and the appointment is another patient's
NotOwnAppointment(u, a) ==
  \/ u = "u_pa" /\ a.patient # "pa"
  \/ u = "u_pb" /\ a.patient # "pb"

\* C22: DELETE /:id of an existing appointment, by a caller who is not a
\* patient or is the appointment's patient, answers 200, sets status to
\* cancelled, cancelledBy to the caller's role and cancelledAt to the current
\* time, and leaves cancellationReason and every other field as they were.
C22_CancelStampsAndKeepsTheRest ==
  [][(/\ CancelStep
      /\ request'.id \in ApptIds
      /\ ~NotOwnAppointment(request'.user, appointments[request'.id]))
     => /\ response'.code = 200
        /\ appointments'[request'.id].status = "cancelled"
        /\ appointments'[request'.id].cancelledBy = RoleOf(request'.user)
        /\ appointments'[request'.id].cancelledAt = now
        /\ appointments'[request'.id].cancellationReason =
             appointments[request'.id].cancellationReason
        /\ \A f \in {"scheduledDate", "startTime", "endTime", "duration", "reminders",
                     "patient", "practitioner", "therapyType", "cost", "notes"} :
             appointments'[request'.id][f] = appointments[request'.id][f]
        /\ \A i \in ApptIds \ {request'.id} : appointments'[i] = appointments[i]
        /\ notifications' = notifications]_vars

\* the owner deleted, at clock 1, an appointment that a practitioner had
\* completed with a reason at clock 0: new stamps, the old reason kept
C22_Witness ==
  /\ request.op = "cancel"
  /\ request.user = "u_pa"
  /\ response.code = 200
  /\ appointments[request.id].status = "cancelled"
  /\ appointments[request.id].cancelledBy = "patient"
  /\ appointments[request.id].cancelledAt = 1
  /\ appointments[request.id].cancellationReason = "patient requested"
  /\ appointments[request.id].reminders[1].scheduledTime = 0

(***************************************************************************)
(* GET /api/notifications: the caller's notifications                      *)
(***************************************************************************)
\* Notification.find({ recipient: req.user._id, isActive: true })
NotificationsOf(store, user) ==
  {k \in 1..Len(store) : store[k].recipient = user}

\* the user account of a stored patient profile
AccountOf(patientId) == CASE patientId = "pa" -> "u_pa" [] OTHER -> "u_pb"

\* C23: every successful status update creates exactly one notification whose
\* recipient is the user account of the appointment's patient, the recipient
\* create uses for the confirmation, so that the patient's GET /notifications
\* returns it.
C23_StatusNotificationReachesPatient ==
  [][(StatusStep /\ response'.code = 200)
     => /\ Len(notifications') = Len(notifications) + 1
        /\ notifications'[Len(notifications')].recipient =
             AccountOf(appointments[request'.id].patient)
        /\ Len(notifications') \in
             NotificationsOf(notifications', AccountOf(appointments[request'.id].patient))]_vars

(***************************************************************************)
(* POST /api/appointments with a store that rejects a save: the handler's  *)
(* catch answers 500 with whatever was saved before left in place          *)
(***************************************************************************)
CreateError == "Create appointment error:"

\* appointment.save() rejects: nothing was written
CreateAppointmentSaveFails(user, b) ==
  /\ CreateRejection(appointments, b) = Proceed
  /\ request' = Req("create", user, 0, b)
  /\ response' = Fail(500, "Server error creating appointment")
  /\ logged' = CreateError
  /\ UNCHANGED <<appointments, notifications, now, inflight, clinic>>

\* appointment.save() resolves and notification.save() rejects
CreateNotificationSaveFails(user, b) ==
  /\ CreateRejection(appointments, b) = Proceed
  /\ Len(appointments) < MaxAppts
  /\ request' = Req("create", user, 0, b)
  /\ appointments' = Append(appointments, NewAppointment(b))
  /\ response' = Fail(500, "Server error creating appointment")
  /\ logged' = CreateError
  /\ UNCHANGED <<notifications, now, inflight, clinic>>

FaultCreateBodies ==
  {Booking("pa", "2024-06-01", "10:00", "10:30"),
   Booking("pb", "2024-06-01", "10:00", "10:30"),
   Booking("pb", "2024-06-01", "10:30", "11:00"),
   Booking("px", "2024-06-01", "11:00", "11:30"),
   [Booking("pa", "2024-06-01", "11:00", "11:30") EXCEPT !.duration = 10]}

FaultStatusBodies == {[status |-> "confirmed"], [status |-> "completed"]}

NextFault ==
  \/ \E b \in FaultCreateBodies : Create("u_pa", b)
  \/ \E b \in FaultCreateBodies : CreateAppointmentSaveFails("u_pa", b)
  \/ \E b \in FaultCreateBodies : CreateNotificationSaveFails("u_pa", b)
  \/ \E id \in 1..MaxAppts, b \in FaultStatusBodies : UpdateStatus("u_da", id, b)
  \/ \E id \in 1..MaxAppts : Cancel("u_pa", id)

SpecFault == Init /\ [][NextFault]_vars

\* a create request was served, whichever way it ended
CreateServed ==
  /\ request'.op = "create"
  /\ \/ Create(request'.user, request'.body)
     \/ CreateAppointmentSaveFails(request'.user, request'.body)
     \/ CreateNotificationSaveFails(request'.user, request'.body)

\* C24: whenever a create request is answered with an error (400, 404 or
\* 500), that request has persisted no appointment, also when it is the save
\* of the confirmation notification that failed.
C24_CreateAllOrNothing ==
  [][(CreateServed /\ response'.code \in {400, 404, 500})
     => appointments' = appointments]_vars

\* C25: in every reachable state the two reminder times of each appointment
\* are its current scheduledDate minus 24 hours and minus 2 hours, also after
\* PUT /:id has changed scheduledDate.
C25_RemindersFollowScheduledDate ==
  \A i \in ApptIds :
    /\ Len(appointments[i].reminders) = 2
    /\ appointments[i].reminders[1].scheduledTime = appointments[i].scheduledDate - 24
    /\ appointments[i].reminders[2].scheduledTime = appointments[i].scheduledDate - 2

(***************************************************************************)
(* Agreement of the slot list with the booking guard: bookings whose end   *)
(* time is not after their start time, which the validators accept         *)
(***************************************************************************)
AgreeCreateBodies ==
  {Booking("pa", "2024-06-01", "10:00", "10:00"),
   Booking("pa", "2024-06-01", "10:30", "10:00"),
   Booking("pb", "2024-06-01", "11:00", "11:30"),
   Booking("pb", "2024-06-02", "10:00", "10:30")}

AgreeQueries ==
  {[practitionerId |-> "da", date |-> d] : d \in {"2024-06-01", "2024-06-02"}}
    \cup {[practitionerId |-> "db", date |-> "2024-06-01"]}

AgreeStatusBodies == {[status |-> "confirmed"], [status |-> "completed"]}

NextAgreement ==
  \/ \E b \in AgreeCreateBodies : Create("u_pa", b)
  \/ \E id \in 1..MaxAppts, b \in AgreeStatusBodies : UpdateStatus("u_da", id, b)
  \/ \E id \in 1..MaxAppts : Cancel("u_pa", id)
  \/ \E q \in AgreeQueries : Availability(q)

SpecAgreement == Init /\ [][NextAgreement]_vars

\* a create for the queried practitioner and date at start time t would be
\* turned down by the booking guard
GuardRejects(t) ==
  \E i \in ApptIds :
    /\ appointments[i].practitioner = request.body.practitionerId
    /\ appointments[i].scheduledDate = NewDate(request.body.date)
    /\ appointments[i].startTime = t
    /\ appointments[i].status \in {"scheduled", "confirmed"}

\* C26: a grid slot whose start time is the startTime of an active
\* appointment of the queried practitioner and date is never reported
\* available, so every reported slot can be booked at its start time without
\* a slot conflict, also when stored appointments end at or before their
\* start.
C26_AvailableSlotsPassTheGuard ==
  AvailabilityAnswered =>
    \A n \in 1..Len(response.slots) : ~GuardRejects(response.slots[n].time)

(***************************************************************************)
(* Updates whose bodies carry allowed and other fields                     *)
(***************************************************************************)
EditCreateBodies ==
  {Booking("pa", "2024-06-01", "10:00", "10:30"), Booking("pb", "2024-06-02", "10:30", "11:00")}

EditUsers == {"u_pa", "u_admin"}

EditBodies ==
  {[startTime |-> "10:30", endTime |-> "11:00", status |-> "completed", cost |-> 500],
   [scheduledDate |-> "2024-06-02", duration |-> 60, notes |-> "moved"],
   [preSessionInstructions |-> "fast", postSessionInstructions |-> "rest",
    patient |-> "pb", practitioner |-> "db", therapyType |-> "basti",
    cancellationReason |-> "none", cancelledBy |-> "admin", cancelledAt |-> 1]}

NextEdit ==
  \/ \E b \in EditCreateBodies : Create("u_admin", b)
  \/ \E u \in EditUsers, id \in 1..MaxAppts, b \in EditBodies : Update(u, id, b)
  \/ \E id \in 1..MaxAppts : Cancel("u_admin", id)

SpecEdit == Init /\ [][NextEdit]_vars

\* C27: a PUT /:id that succeeds changes, of the target appointment, only the
\* fields scheduledDate, startTime, endTime, duration, notes,
\* preSessionInstructions and postSessionInstructions that the body carries,
\* to the body's values; status, patient, practitioner, therapyType, cost, the
\* cancellation fields, the reminders and all other appointments stay as they
\* were whatever else the body contains.
C27_UpdateWritesAllowedFieldsOnly ==
  [][(UpdateStep /\ response'.code = 200)
     => /\ \A f \in {"startTime", "endTime", "duration", "notes", "preSessionInstructions",
                     "postSessionInstructions"} :
             appointments'[request'.id][f] =
               IF f \in DOMAIN request'.body THEN request'.body[f]
               ELSE appointments[request'.id][f]
        /\ appointments'[request'.id].scheduledDate =
             IF "scheduledDate" \in DOMAIN request'.body
             THEN NewDate(request'.body.scheduledDate)
             ELSE appointments[request'.id].scheduledDate
        /\ \A f \in {"status", "patient", "practitioner", "therapyType", "cost",
                     "cancellationReason", "cancelledBy", "cancelledAt", "reminders"} :
             appointments'[request'.id][f] = appointments[request'.id][f]
        /\ Len(appointments') = Len(appointments)
        /\ \A i \in ApptIds \ {request'.id} : appointments'[i] = appointments[i]
        /\ notifications' = notifications]_vars

\* a body with startTime, endTime, status and cost was applied: the times are
\* the body's, status and cost are not
C27_Witness ==
  /\ request.op = "update"
  /\ response.code = 200
  /\ "status" \in DOMAIN request.body
  /\ appointments[request.id].startTime = "10:30"
  /\ appointments[request.id].endTime = "11:00"
  /\ appointments[request.id].status = "scheduled"
  /\ appointments[request.id].cost = 0

(***************************************************************************)
(* Wallet (routes/wallet.js): POST /api/wallet/add-funds and               *)
(* POST /api/wallet/deduct.  Each handler awaits User.findById, computes    *)
(* the new balance from the document it read, and awaits user.save();      *)
(* WalletRead is the handler up to the read, WalletSave the rest.          *)
(***************************************************************************)
\* body('amount').isFloat({ min: 100, max: 50000 }), body('paymentMethod').isIn,
\* body('transactionId').notEmpty()
ValidAddFunds(b) ==
  /\ b.amount >= 100 /\ b.amount <= 50000
  /\ b.paymentMethod \in {"card", "upi", "netbanking"}
  /\ b.transactionId # ""

\* body('amount').isFloat({ min: 1 }), body('reason').notEmpty()
ValidDeduct(b) == b.amount >= 1 /\ b.reason # ""

\* the answer that ends a wallet request before the write
WalletRejection(user, kind, b) ==
  IF kind = "add-funds" /\ ~ValidAddFunds(b) THEN Fail(400, "Validation errors")
  ELSE IF kind = "deduct" /\ ~ValidDeduct(b) THEN Fail(400, "Validation errors")
  ELSE IF user \notin Users THEN Fail(404, "User not found")
  ELSE IF kind = "deduct" /\ walletBalance[user] < b.amount
  THEN Fail(400, "Insufficient wallet balance")
  ELSE Proceed

WalletRead(p, user, kind, b) ==
  /\ inflight[p].pc = "idle"
  /\ IF WalletRejection(user, kind, b) # Proceed
     THEN /\ request' = Req(kind, user, 0, b)
          /\ response' = WalletRejection(user, kind, b)
          /\ logged' = NothingLogged
          /\ UNCHANGED inflight
     ELSE /\ inflight' =
               [inflight EXCEPT ![p] =
                  [pc |-> "walletSave", user |-> user, kind |-> kind, body |-> b,
                   currentBalance |-> walletBalance[user]]]
          /\ UNCHANGED <<request, response, logged>>
  /\ UNCHANGED <<appointments, notifications, now, clinic>>

\* user.walletBalance = currentBalance +/- amount; await user.save(); res.json
WalletSave(p) ==
  /\ inflight[p].pc = "walletSave"
  /\ Len(accepted) < MaxAccepted
  /\ walletBalance' =
       [walletBalance EXCEPT ![inflight[p].user] =
          IF inflight[p].kind = "add-funds"
          THEN inflight[p].currentBalance + inflight[p].body.amount
          ELSE inflight[p].currentBalance - inflight[p].body.amount]
  /\ accepted' =
       Append(accepted,
              [user |-> inflight[p].user, kind |-> inflight[p].kind,
               amount |-> inflight[p].body.amount])
  /\ request' = Req(inflight[p].kind, inflight[p].user, 0, inflight[p].body)
  /\ response' =
       IF inflight[p].kind = "add-funds"
       THEN Resp(200, "Funds added successfully", <<>>, <<>>)
       ELSE Resp(200, "Amount deducted successfully", <<>>, <<>>)
  /\ logged' = NothingLogged
  /\ inflight' = [inflight EXCEPT ![p] = Idle]
  /\ UNCHANGED <<appointments, notifications, now, feedbacks, assignedPractitioner,
                 practitionerPatients>>

\* req.user and req.body of the wallet requests: two accounts; amounts inside
\* and outside the validators' ranges, one payment method outside the list
NextWallet ==
  \/ \E p \in Procs, u \in {"u_pa", "u_pb"}, a \in {100, 500, 50},
         m \in {"upi", "cash"} :
       WalletRead(p, u, "add-funds",
                  [amount |-> a, paymentMethod |-> m, transactionId |-> "t1"])
  \/ \E p \in Procs, u \in {"u_pa", "u_pb"}, a \in {100, 600, 0} :
       WalletRead(p, u, "deduct", [amount |-> a, reason |-> "session"])
  \/ \E p \in Procs : WalletSave(p)

SpecWallet == Init /\ [][NextWallet]_vars

\* the sum of the amounts of the accepted requests of one kind of a user
RECURSIVE SumAccepted(_, _, _)
SumAccepted(log, user, kind) ==
  IF log = <<>> THEN 0
  ELSE (IF Head(log).user = user /\ Head(log).kind = kind THEN Head(log).amount ELSE 0)
         + SumAccepted(Tail(log), user, kind)

\* C28: a user's wallet balance is never negative and always equals the sum
\* of the accepted add-funds amounts minus the sum of the accepted
\* deductions, also when requests of that user interleave between their read
\* and their write.
C28_BalanceIsLedgerSum ==
  \A u \in Users :
    /\ walletBalance[u] >= 0
    /\ walletBalance[u] =
         SumAccepted(accepted, u, "add-funds") - SumAccepted(accepted, u, "deduct")

(***************************************************************************)
(* Feedback (routes/feedback.js): POST /api/feedback, patients only.  The  *)
(* handler awaits Feedback.findOne({ appointment }) and, later, awaits     *)
(* feedback.save(); FeedbackCheck is the handler up to the query,          *)
(* FeedbackSave the rest.  updatePractitionerRating writes no feedback     *)
(* and is left out.                                                        *)
(***************************************************************************)
\* Feedback.findOne({ appointment: appointmentId }) finds a document
FeedbackExists(store, appointmentId) ==
  \E i \in 1..Len(store) : store[i].appointment = appointmentId

\* the answer that ends a feedback request before the save
FeedbackRejection(user, b) ==
  IF b.therapyType = "" \/ b.rating \notin 1..5 THEN Fail(400, "Validation errors")
  ELSE IF PatientFindOneByUser(user) = Undefined THEN Fail(404, "Patient profile not found")
  ELSE IF ~Exists(b.appointmentId) THEN Fail(404, "Appointment not found")
  ELSE IF appointments[b.appointmentId].patient # PatientFindOneByUser(user)
  THEN Fail(403, "Access denied")
  ELSE IF FeedbackExists(feedbacks, b.appointmentId)
  THEN Fail(400, "Feedback already submitted for this appointment")
  ELSE Proceed

FeedbackCheck(p, user, b) ==
  /\ inflight[p].pc = "idle"
  /\ IF FeedbackRejection(user, b) # Proceed
     THEN /\ request' = Req("feedback", user, 0, b)
          /\ response' = FeedbackRejection(user, b)
          /\ logged' = NothingLogged
          /\ UNCHANGED inflight
     ELSE /\ inflight' =
               [inflight EXCEPT ![p] = [pc |-> "feedbackSave", user |-> user, body |-> b]]
          /\ UNCHANGED <<request, response, logged>>
  /\ UNCHANGED <<appointments, notifications, now, clinic>>

\* await feedback.save(): the document is inserted and the answer is 201; if
\* a document for the appointment is stored by now, the insert may instead
\* be refused by a unique index of the Feedback schema (the schema is not
\* part of the sources), which the catch block answers with 500
FeedbackSave(p) ==
  /\ inflight[p].pc = "feedbackSave"
  /\ request' = Req("feedback", inflight[p].user, 0, inflight[p].body)
  /\ \/ /\ feedbacks' =
             Append(feedbacks,
                    [patient |-> PatientFindOneByUser(inflight[p].user),
                     practitioner |-> appointments[inflight[p].body.appointmentId].practitioner,
                     appointment |-> inflight[p].body.appointmentId,
                     rating |-> inflight[p].body.rating])
        /\ response' = Resp(201, "Feedback submitted successfully", <<>>, <<>>)
        /\ logged' = NothingLogged
     \/ /\ FeedbackExists(feedbacks, inflight[p].body.appointmentId)
        /\ response' = Fail(500, "Server error submitting feedback")
        /\ logged' = "Submit feedback error:"
        /\ UNCHANGED feedbacks
  /\ inflight' = [inflight EXCEPT ![p] = Idle]
  /\ UNCHANGED <<appointments, notifications, now, walletBalance, accepted,
                 assignedPractitioner, practitionerPatients>>

\* req.user and req.body of the feedback requests: both patients; stored and
\* unknown appointment ids, ratings inside and outside 1..5
NextFeedback ==
  \/ \E b \in EditCreateBodies : Create("u_admin", b)
  \/ \E p \in Procs, u \in {"u_pa", "u_pb"}, id \in 1..MaxAppts, r \in {4, 5, 6} :
       FeedbackCheck(p, u, [appointmentId |-> id, therapyType |-> "abhyanga", rating |-> r])
  \/ \E p \in Procs : FeedbackSave(p)

SpecFeedback == Init /\ [][NextFeedback]_vars

\* C29: an appointment never has more than one feedback record, and a valid
\* feedback request of the appointment's patient that is answered while a
\* record for the appointment is stored is answered 400 'Feedback already
\* submitted for this appointment' and stores nothing, also when the request
\* was received before that record was stored.
C29_OneFeedbackPerAppointment ==
  [][/\ \A i, j \in 1..Len(feedbacks') :
          feedbacks'[i].appointment = feedbacks'[j].appointment => i = j
     /\ \A p \in Procs :
          (/\ \/ FeedbackSave(p)
              \/ /\ request'.op = "feedback"
                 /\ FeedbackCheck(p, request'.user, request'.body)
                 /\ UNCHANGED inflight
           /\ request'.body.rating \in 1..5
           /\ Exists(request'.body.appointmentId)
           /\ appointments[request'.body.appointmentId].patient
                = PatientFindOneByUser(request'.user)
           /\ FeedbackExists(feedbacks, request'.body.appointmentId))
          => /\ response' = Fail(400, "Feedback already submitted for this appointment")
             /\ feedbacks' = feedbacks]_vars

(***************************************************************************)
(* Assignment: POST /api/practitioners/me/assign-patient (practitioners    *)
(* only) and POST /api/patients/me/assign-practitioner (patients only)     *)
(***************************************************************************)
AssignPatient(user, patientId) ==
  /\ request' = Req("assign-patient", user, 0, [patientId |-> patientId])
  /\ logged' = NothingLogged
  /\ IF ~IsMongoId(patientId)
     THEN /\ response' = Fail(400, "Validation errors")
          /\ UNCHANGED <<assignedPractitioner, practitionerPatients>>
     ELSE IF PractitionerFindOneByUser(user) = Undefined
     THEN /\ response' = Fail(404, "Practitioner profile not found")
          /\ UNCHANGED <<assignedPractitioner, practitionerPatients>>
     ELSE IF patientId \notin PatientIds
     THEN /\ response' = Fail(404, "Patient not found")
          /\ UNCHANGED <<assignedPractitioner, practitionerPatients>>
     ELSE LET d == PractitionerFindOneByUser(user) IN
          /\ assignedPractitioner' = [assignedPractitioner EXCEPT ![patientId] = d]
          /\ practitionerPatients' =
               IF \E i \in 1..Len(practitionerPatients[d]) :
                    practitionerPatients[d][i] = patientId
               THEN practitionerPatients
               ELSE [practitionerPatients EXCEPT ![d] = Append(@, patientId)]
          /\ response' = Resp(200, "Patient assigned successfully", <<>>, <<>>)
  /\ UNCHANGED <<appointments, notifications, now, inflight, walletBalance, accepted,
                 feedbacks>>

AssignPractitioner(user, practitionerId) ==
  /\ request' = Req("assign-practitioner", user, 0, [practitionerId |-> practitionerId])
  /\ logged' = NothingLogged
  /\ IF ~IsMongoId(practitionerId)
     THEN /\ response' = Fail(400, "Validation errors")
          /\ UNCHANGED assignedPractitioner
     ELSE IF PatientFindOneByUser(user) = Undefined
     THEN /\ response' = Fail(404, "Patient profile not found")
          /\ UNCHANGED assignedPractitioner
     ELSE /\ assignedPractitioner' =
               [assignedPractitioner EXCEPT ![PatientFindOneByUser(user)] = practitionerId]
          /\ response' = Resp(200, "Practitioner assigned successfully", <<>>, <<>>)
  /\ UNCHANGED <<appointments, notifications, now, inflight, walletBalance, accepted,
                 feedbacks, practitionerPatients>>

\* req.user and req.body of the assignment requests: both practitioners and
\* both patients; stored ids, an id of no document and a malformed id
NextAssign ==
  \/ \E u \in {"u_da", "u_db"}, id \in {"pa", "pb", "px", "bad"} : AssignPatient(u, id)
  \/ \E u \in {"u_pa", "u_pb"}, id \in {"da", "db", "dx", "bad"} : AssignPractitioner(u, id)

SpecAssign == Init /\ [][NextAssign]_vars

\* C30: in every reachable state a patient is in a practitioner's patients
\* list exactly if that practitioner is the patient's assignedPractitioner,
\* and no patient is in a list twice.
C30_AssignmentIsSymmetric ==
  \A d \in PractitionerIds :
    /\ \A p \in PatientIds :
         (\E i \in 1..Len(practitionerPatients[d]) : practitionerPatients[d][i] = p)
           <=> assignedPractitioner[p] = d
    /\ \A i, j \in 1..Len(practitionerPatients[d]) :
         practitionerPatients[d][i] = practitionerPatients[d][j] => i = j

====
